---- MODULE Spec2Model ----
(***************************************************************************)
(* Floor Plan Gallery: the S3 catalog service (services/s3_service.py),    *)
(* the dashboard request (app.py) and the statistics helper                *)
(* (utils/helpers.py), as state machines over a small object store.        *)
(*                                                                         *)
(* Python values are tagged records [t |-> type, v |-> payload]; a dict's  *)
(* payload is a function from its keys, a list's payload a sequence.       *)
(* Strings are TLA+ strings, read character by character with SubSeq.      *)
(***************************************************************************)
EXTENDS Integers, Sequences, FiniteSets, TLC

VARIABLES
    store,          \* objects listed under metadata/by_generation/, in key order
    images,         \* keys of the image objects that exist in the bucket
    compStore,      \* objects listed under metadata/comparisons/, in key order
    s3fault,        \* condition of the store for head_object probes
    service,        \* st.cache_resource: "none" or "ready"
    now,            \* wall clock, seconds
    genCache,       \* st.cache_data entry of load_all_generations
    filtCache,      \* st.cache_data entry of get_available_filters
    pc,             \* position of the running request in main()
    generations,    \* main(): generations
    filters_data,   \* main(): filters_data
    selection,      \* main(): the widgets' values handed to apply_filters
    filtered,       \* main(): filtered_generations
    ui,             \* what the request has put on the page
    scanLog,        \* which of the request's two reads ran a scan, and how it ended
    call            \* the last direct call of a service function, with its result

vars == <<store, images, compStore, s3fault, service, now, genCache, filtCache, pc,
          generations, filters_data, selection, filtered, ui, scanLog, call>>

(***************************************************************************)
(* Bounds of the model.                                                    *)
(***************************************************************************)
PageSize == 2       \* keys per page of the paginated listing
TickStep == 150     \* seconds by which the clock advances in one step
MaxTime == 450      \* the clock stops here

(***************************************************************************)
(* Python values.                                                          *)
(***************************************************************************)
PStr(s) == [t |-> "str", v |-> s]
PNum(n) == [t |-> "num", v |-> n]
PDict(d) == [t |-> "dict", v |-> d]
PList(l) == [t |-> "list", v |-> l]
PNone == [t |-> "none", v |-> 0]
EmptyDict == PDict(<<>>)
EmptyList == PList(<<>>)

\* bool(x)
Truthy(x) ==
    CASE x.t = "none" -> FALSE
      [] x.t = "str" -> x.v # ""
      [] x.t = "num" -> x.v # 0
      [] x.t = "dict" -> DOMAIN x.v # {}
      [] x.t = "list" -> Len(x.v) > 0

HasGet(x) == x.t = "dict"

\* x.get(k, default), for a dict x
Get(x, k, default) == IF k \in DOMAIN x.v THEN x.v[k] ELSE default

\* x[k] = val, for a dict x
DictSet(x, k, val) == PDict((k :> val) @@ x.v)

(***************************************************************************)
(* Strings: code point order, lower(), substring, endswith, join.          *)
(***************************************************************************)
CodePoints == " ./0123456789ABCDEFGHIJKLMNOPQRSTUVWXYZ_abcdefghijklmnopqrstuvwxyz"
UpperCase == "ABCDEFGHIJKLMNOPQRSTUVWXYZ"
LowerCase == "abcdefghijklmnopqrstuvwxyz"

Ord(c) == CHOOSE i \in 1..Len(CodePoints) : SubSeq(CodePoints, i, i) = c

LowerChar(c) ==
    IF \E i \in 1..Len(UpperCase) : SubSeq(UpperCase, i, i) = c
    THEN LET i == CHOOSE j \in 1..Len(UpperCase) : SubSeq(UpperCase, j, j) = c
         IN  SubSeq(LowerCase, i, i)
    ELSE c

RECURSIVE lower(_)
lower(s) ==
    IF s = "" THEN ""
    ELSE LowerChar(SubSeq(s, 1, 1)) \o lower(SubSeq(s, 2, Len(s)))

\* q in s, for strings
IsSubstring(q, s) ==
    \E i \in 1..(Len(s) + 1) :
        i + Len(q) - 1 <= Len(s) /\ SubSeq(s, i, i + Len(q) - 1) = q

EndsWith(s, suffix) ==
    Len(s) >= Len(suffix) /\ SubSeq(s, Len(s) - Len(suffix) + 1, Len(s)) = suffix

RECURSIVE StrLess(_, _)
StrLess(a, b) ==
    IF b = "" THEN FALSE
    ELSE IF a = "" THEN TRUE
    ELSE LET ca == Ord(SubSeq(a, 1, 1))
             cb == Ord(SubSeq(b, 1, 1))
         IN  IF ca # cb THEN ca < cb
             ELSE StrLess(SubSeq(a, 2, Len(a)), SubSeq(b, 2, Len(b)))

\* sep.join(parts), for a sequence of strings
RECURSIVE Join(_, _)
Join(sep, parts) ==
    IF Len(parts) = 0 THEN ""
    ELSE IF Len(parts) = 1 THEN parts[1]
    ELSE parts[1] \o sep \o Join(sep, Tail(parts))

\* f"{x}" for the values an identifier field takes here
Format(x) ==
    CASE x.t = "str" -> x.v
      [] x.t = "num" -> SubSeq("0123456789", x.v + 1, x.v + 1)
      [] x.t = "none" -> "None"

(***************************************************************************)
(* The bucket.  A stored object is [Key, state, doc]: state "ok" (the body *)
(* is the JSON document doc), "gone" (get_object raises: deleted after the *)
(* listing, or access denied) or "corrupt" (the body does not decode or    *)
(* parse).                                                                 *)
(***************************************************************************)
RECURSIVE Chunks(_)
Chunks(objs) ==
    IF Len(objs) = 0 THEN <<>>
    ELSE LET n == IF Len(objs) < PageSize THEN Len(objs) ELSE PageSize
         IN  << [KeyCount |-> n,
                 Contents |-> [i \in 1..n |-> [Key |-> objs[i].Key]]] >>
             \o Chunks(SubSeq(objs, n + 1, Len(objs)))

\* paginator.paginate(Bucket, Prefix='metadata/by_generation/'): the pages
\* of the listing; an empty listing is one page without 'Contents'
paginate == IF Len(store) = 0 THEN << [KeyCount |-> 0] >> ELSE Chunks(store)

get_object(key) ==
    CHOOSE o \in {store[i] : i \in 1..Len(store)}
                    \cup {compStore[i] : i \in 1..Len(compStore)} : o.Key = key

_load_metadata_from_s3(metadata_key) ==
    LET o == get_object(metadata_key)
    IN  IF o.state = "ok" THEN o.doc ELSE PNone

\* head_object: "ok", "client_error" (ClientError: 404, 403) or "error"
\* (any other exception, such as a connection failure)
head_object(key) ==
    CASE s3fault = "unreachable" -> "error"
      [] s3fault = "denied" -> "client_error"
      [] OTHER -> IF key \in images THEN "ok" ELSE "client_error"

_object_exists_raises(key) == head_object(key) = "error"

_object_exists(key) == head_object(key) = "ok"

\* k in x: raises TypeError for a number or None
PyInRaises(x) == x.t \in {"num", "none"}

PyIn(k, x) ==
    CASE x.t = "dict" -> k \in DOMAIN x.v
      [] x.t = "list" -> \E i \in 1..Len(x.v) : x.v[i] = PStr(k)
      [] x.t = "str" -> IsSubstring(k, x.v)
      [] OTHER -> FALSE

required_fields_without_model_config == <<"generation_id", "approach">>

required_fields == <<"generation_id", "approach", "model_config">>

_validate_generation_metadata(metadata) ==
    \A i \in 1..Len(required_fields) : PyIn(required_fields[i], metadata)

\* s.split(sep)[-1], for a separator that occurs in s
AfterLast(s, sep) ==
    LET at == {i \in 1..Len(s) :
                  i + Len(sep) - 1 <= Len(s) /\ SubSeq(s, i, i + Len(sep) - 1) = sep}
        last == CHOOSE i \in at : \A j \in at : j <= i
    IN  SubSeq(s, last + Len(sep), Len(s))

S3Host == ".s3.amazonaws.com/"

\* the s3_paths branch, lines 114-120; every exception ends in None
ImageKeyFromPaths(metadata) ==
    IF "s3_paths" \notin DOMAIN metadata.v THEN PNone
    ELSE LET s3_paths == metadata.v["s3_paths"]
         IN  IF PyInRaises(s3_paths) \/ ~PyIn("main_image", s3_paths) THEN PNone
             ELSE IF s3_paths.t # "dict" THEN PNone
             ELSE LET s3_url == s3_paths.v["main_image"]
                  IN  IF PyInRaises(s3_url) \/ ~PyIn(S3Host, s3_url) THEN PNone
                      ELSE IF s3_url.t # "str" THEN PNone
                      ELSE PStr(AfterLast(s3_url.v, S3Host))

_get_image_key_from_metadata(metadata) ==
    IF metadata.t # "dict" THEN PNone
    ELSE IF ~({"generation_id", "approach"} \subseteq DOMAIN metadata.v) THEN PNone
    ELSE LET generation_id == metadata.v["generation_id"]
             approach == metadata.v["approach"]
             image_key == "images/by_approach/" \o Format(approach) \o "/"
                              \o Format(generation_id) \o ".png"
             image_key_jpg == "images/by_approach/" \o Format(approach) \o "/"
                                  \o Format(generation_id) \o ".jpg"
         IN  IF _object_exists_raises(image_key) THEN PNone
             ELSE IF _object_exists(image_key) THEN PStr(image_key)
             ELSE IF _object_exists_raises(image_key_jpg) THEN PNone
             ELSE IF _object_exists(image_key_jpg) THEN PStr(image_key_jpg)
             ELSE ImageKeyFromPaths(metadata)

\* the body of the inner try, lines 65-70: [raised, recs]
TryBody(key) ==
    LET metadata == _load_metadata_from_s3(key)
    IN  IF ~Truthy(metadata) THEN [raised |-> FALSE, recs |-> <<>>]
        ELSE IF PyInRaises(metadata) THEN [raised |-> TRUE, recs |-> <<>>]
        ELSE IF ~_validate_generation_metadata(metadata)
             THEN [raised |-> FALSE, recs |-> <<>>]
        ELSE IF metadata.t # "dict" THEN [raised |-> TRUE, recs |-> <<>>]
        ELSE LET keyed == DictSet(metadata, "metadata_key", PStr(key))
             IN  [raised |-> FALSE,
                  recs |-> << DictSet(keyed, "image_key",
                                      _get_image_key_from_metadata(keyed)) >>]

ProcessObjectWithoutTry(key) ==
    IF ~EndsWith(key, ".json") THEN [raised |-> FALSE, recs |-> <<>>]
    ELSE TryBody(key)

\* one listed key, lines 60-73: the except of the inner try absorbs the raise
ProcessObject(key) ==
    IF ~EndsWith(key, ".json") THEN [raised |-> FALSE, recs |-> <<>>]
    ELSE LET r == TryBody(key)
         IN  IF r.raised THEN [raised |-> FALSE, recs |-> <<>>] ELSE r

\* the loop over page['Contents'], lines 59-73
RECURSIVE ScanContents(_, _, _)
ScanContents(contents, i, acc) ==
    IF i > Len(contents) THEN [raised |-> FALSE, generations |-> acc]
    ELSE LET r == ProcessObject(contents[i].Key)
         IN  IF r.raised THEN [raised |-> TRUE, generations |-> acc]
             ELSE ScanContents(contents, i + 1, acc \o r.recs)

\* the loop over the pages, lines 55-73; fetching page failAt raises
RECURSIVE ScanPages(_, _, _, _)
ScanPages(pages, p, failAt, acc) ==
    IF p > Len(pages) THEN [raised |-> FALSE, generations |-> acc]
    ELSE IF p = failAt THEN [raised |-> TRUE, generations |-> acc]
    ELSE IF "Contents" \notin DOMAIN pages[p]
         THEN ScanPages(pages, p + 1, failAt, acc)
    ELSE LET r == ScanContents(pages[p].Contents, 1, acc)
         IN  IF r.raised THEN r
             ELSE ScanPages(pages, p + 1, failAt, r.generations)

\* whether the listing raises: some page up to the last one fails to load
ListingFails(failAt) == failAt \in 1..Len(paginate)

get_all_generations_partial(failAt) ==
    ScanPages(paginate, 1, failAt, <<>>).generations

get_all_generations(failAt) ==
    LET r == ScanPages(paginate, 1, failAt, <<>>)
    IN  IF r.raised THEN <<>> ELSE r.generations

(***************************************************************************)
(* get_available_filters, lines 148-182.                                   *)
(***************************************************************************)
\* set.add(x) raises TypeError for a dict or a list
Unhashable(x) == x.t \in {"dict", "list"}

\* x < y between values of one type
PyLess(x, y) == IF x.t = "str" THEN StrLess(x.v, y.v) ELSE x.v < y.v

\* sorted() compares neighbours: values of two types raise TypeError
SortRaises(S) == \E x \in S, y \in S : x.t # y.t

RECURSIVE sorted_descending(_)
sorted_descending(S) ==
    IF S = {} THEN <<>>
    ELSE LET m == CHOOSE x \in S : \A y \in S : y = x \/ PyLess(y, x)
         IN  <<m>> \o sorted_descending(S \ {m})

RECURSIVE sorted(_)
sorted(S) ==
    IF S = {} THEN <<>>
    ELSE LET m == CHOOSE x \in S : \A y \in S : y = x \/ PyLess(x, y)
         IN  <<m>> \o sorted(S \ {m})

approaches_of(gens) ==
    {gens[i].v["approach"] : i \in {j \in 1..Len(gens) : "approach" \in DOMAIN gens[j].v}}

\* the values of model_config[field] over the records whose model_config is
\* a dict that has the field, lines 163-168
model_values_of(gens, field) ==
    LET model_config(i) == Get(gens[i], "model_config", EmptyDict)
        has == {i \in 1..Len(gens) :
                   /\ model_config(i).t = "dict"
                   /\ field \in DOMAIN model_config(i).v}
    IN  {model_config(i).v[field] : i \in has}

NoFilters == [approaches |-> <<>>, base_models |-> <<>>, lora_models |-> <<>>]

\* lines 153-182 over the scanned generations
derive_filters(gens) ==
    LET approaches == approaches_of(gens)
        base_models == model_values_of(gens, "base_model")
        lora_models == model_values_of(gens, "lora_model")
        raises == \/ \E x \in approaches \cup base_models \cup lora_models : Unhashable(x)
                  \/ SortRaises(approaches)
                  \/ SortRaises(base_models)
                  \/ SortRaises(lora_models)
    IN  IF raises THEN NoFilters
        ELSE [approaches |-> sorted(approaches),
              base_models |-> sorted(base_models),
              lora_models |-> sorted(lora_models)]

get_available_filters(failAt) == derive_filters(get_all_generations(failAt))

(***************************************************************************)
(* apply_filters, app.py lines 110-144.  The result is [raised, value]:    *)
(* an AttributeError or TypeError of a comprehension leaves the function.  *)
(***************************************************************************)
\* x in lst, for a list of values
InList(x, lst) == \E i \in 1..Len(lst) : lst[i] = x

ByApproachUnguarded(gens, approaches) ==
    SelectSeq(gens, LAMBDA g : InList(Get(g, "approach", PNone), approaches))

\* lines 115-116
ByApproach(gens, approaches) ==
    IF Len(approaches) = 0 THEN gens
    ELSE SelectSeq(gens, LAMBDA g : InList(Get(g, "approach", PNone), approaches))

\* g.get('model_config', {}).get(...) raises unless model_config is a dict
ByModelRaises(gens, allowed) ==
    /\ Len(allowed) > 0
    /\ \E i \in 1..Len(gens) : ~HasGet(Get(gens[i], "model_config", EmptyDict))

ByModelBaseOnly(gens, field, allowed) ==
    IF Len(allowed) = 0 THEN gens
    ELSE SelectSeq(gens, LAMBDA g :
             InList(Get(Get(g, "model_config", EmptyDict), "base_model", PNone), allowed))

\* lines 119-120 (field base_model) and 123-124 (field lora_model)
ByModel(gens, field, allowed) ==
    IF Len(allowed) = 0 THEN gens
    ELSE SelectSeq(gens, LAMBDA g :
             InList(Get(Get(g, "model_config", EmptyDict), field, PNone), allowed))

\* ' '.join(tags) raises TypeError unless tags is a list of strings or a string
JoinRaises(tags) ==
    CASE tags.t = "list" -> \E i \in 1..Len(tags.v) : tags.v[i].t # "str"
      [] tags.t = "str" -> FALSE
      [] OTHER -> TRUE

\* ' '.join(tags): of a list its items, of a string its characters
tags_text(tags) ==
    CASE tags.t = "list" -> Join(" ", [i \in 1..Len(tags.v) |-> tags.v[i].v])
      [] tags.t = "str" -> Join(" ", [i \in 1..Len(tags.v) |-> SubSeq(tags.v, i, i)])

\* lines 132-137 raise for g
SearchRaises(g) ==
    LET prompt_info == Get(g, "prompt_info", EmptyDict)
    IN  \/ ~HasGet(prompt_info)
        \/ Get(prompt_info, "original", PStr("")).t # "str"
        \/ JoinRaises(Get(g, "tags", EmptyList))

MatchesPromptOnly(g, search_query) ==
    LET query_lower == lower(search_query)
        original_prompt == lower(Get(Get(g, "prompt_info", EmptyDict), "original", PStr("")).v)
    IN  IsSubstring(query_lower, original_prompt)

\* lines 128-139
Matches(g, search_query) ==
    LET query_lower == lower(search_query)
        original_prompt == lower(Get(Get(g, "prompt_info", EmptyDict), "original", PStr("")).v)
        tags_lower == lower(tags_text(Get(g, "tags", EmptyList)))
    IN  IsSubstring(query_lower, original_prompt) \/ IsSubstring(query_lower, tags_lower)

Raised == [raised |-> TRUE, value |-> <<>>]

apply_filters(gens, approaches, base_models, lora_models, search_query) ==
    LET by_approach == ByApproach(gens, approaches)
        by_base == ByModel(by_approach, "base_model", base_models)
        by_lora == ByModel(by_base, "lora_model", lora_models)
    IN  IF ByModelRaises(by_approach, base_models) THEN Raised
        ELSE IF ByModelRaises(by_base, lora_models) THEN Raised
        ELSE IF search_query = "" THEN [raised |-> FALSE, value |-> by_lora]
        ELSE IF \E i \in 1..Len(by_lora) : SearchRaises(by_lora[i]) THEN Raised
        ELSE [raised |-> FALSE,
              value |-> SelectSeq(by_lora, LAMBDA g : Matches(g, search_query))]

(***************************************************************************)
(* Documents and stores of the model.                                      *)
(***************************************************************************)
KeyG1 == "metadata/by_generation/g1.json"
KeyG2 == "metadata/by_generation/g2.json"
KeyG3 == "metadata/by_generation/g3.json"
KeyTxt == "metadata/by_generation/readme.txt"

ImgPng == "images/by_approach/single_lora/g1.png"
ImgJpg == "images/by_approach/single_lora/g1.jpg"

DocA ==
    PDict([generation_id |-> PStr("g1"), approach |-> PStr("single_lora"),
           model_config |-> PDict([base_model |-> PStr("sd15"),
                                   lora_model |-> PStr("floorplan")]),
           prompt_info |-> PDict([original |-> PStr("A BEDROOM floor plan"),
                                  hash |-> PStr("h1")]),
           s3_paths |-> PDict([main_image |->
               PStr("https://plans.s3.amazonaws.com/images/debug/g1.png")])])

DocB ==
    PDict([generation_id |-> PStr("g2"), approach |-> PStr("combined"),
           model_config |-> EmptyDict,
           prompt_info |-> PDict([original |-> PStr("a kitchen"), hash |-> PStr("h1")]),
           tags |-> PList(<<PStr("Bedroom"), PStr("two rooms")>>)])

DocC ==
    PDict([generation_id |-> PStr("g3"), approach |-> PStr("Baseline"),
           model_config |-> PDict([base_model |-> PStr("SDXL")]),
           prompt_info |-> PDict([original |-> PStr("garage")]),
           tags |-> PList(<<PStr("car")>>)])

DocNoId ==
    PDict([approach |-> PStr("single_lora"),
           model_config |-> PDict([base_model |-> PStr("sd15")])])

DocNoApproach ==
    PDict([generation_id |-> PStr("g5"),
           model_config |-> PDict([base_model |-> PStr("sd15")])])

DocNoConfig == PDict([generation_id |-> PStr("g6"), approach |-> PStr("single_lora")])

\* JSON documents that are not objects
DocList == PList(<<PStr("generation_id"), PStr("approach"), PStr("model_config")>>)
DocStr == PStr("generation_id approach model_config")
DocNum == PNum(5)

\* required fields present, of unexpected types
DocOdd ==
    PDict([generation_id |-> PStr("g4"), approach |-> PNum(7),
           model_config |-> PStr("sd15")])

Docs == {DocA, DocB, DocC, DocNoId, DocNoApproach, DocNoConfig,
         EmptyDict, DocList, DocStr, DocNum, DocOdd}

Bodies ==
    {[state |-> "ok", doc |-> d] : d \in Docs}
        \cup {[state |-> "gone", doc |-> PNone], [state |-> "corrupt", doc |-> PNone]}

Absent == [state |-> "absent", doc |-> PNone]

\* the listing, in key order, of a bucket holding b1 at KeyG1, b2 at KeyG2,
\* b3 at KeyG3 and b4 at KeyTxt
StoreOf(b1, b2, b3, b4) ==
    LET obj(k, b) == IF b.state = "absent" THEN <<>>
                     ELSE << [Key |-> k, state |-> b.state, doc |-> b.doc] >>
    IN  obj(KeyG1, b1) \o obj(KeyG2, b2) \o obj(KeyG3, b3) \o obj(KeyTxt, b4)

Faults == {"none", "denied", "unreachable"}

NoCall == [op |-> "none", failAt |-> 0, failed |-> FALSE,
           catalog |-> <<>>, args |-> <<>>, result |-> <<>>]

NoCache == [valid |-> FALSE, at |-> 0, failed |-> FALSE, val |-> <<>>]

NoSelection == [approaches |-> <<>>, base_models |-> <<>>, lora_models |-> <<>>,
                search_query |-> "", changed |-> FALSE]

NoScans == [generations |-> "none", filters |-> "none"]

\* everything of the dashboard at rest
DashboardIdle ==
    /\ service = "none"
    /\ now = 0
    /\ genCache = NoCache
    /\ filtCache = NoCache
    /\ pc = "idle"
    /\ generations = <<>>
    /\ filters_data = NoFilters
    /\ selection = NoSelection
    /\ filtered = <<>>
    /\ ui = "none"
    /\ scanLog = NoScans

dashboardVars == <<service, now, genCache, filtCache, pc, generations,
                   filters_data, selection, filtered, ui, scanLog>>

(***************************************************************************)
(* SpecCatalog: get_all_generations and get_available_filters called on    *)
(* every store of the model, with every page of the listing failing.       *)
(***************************************************************************)
InitCatalog ==
    /\ \E b1 \in Bodies \cup {Absent}, b2 \in Bodies \cup {Absent},
          b4 \in {Absent, [state |-> "ok", doc |-> DocA]} :
            store = StoreOf(b1, b2, Absent, b4)
    /\ images \in {{}, {ImgPng}, {ImgJpg}}
    /\ s3fault \in Faults
    /\ compStore = <<>>
    /\ DashboardIdle
    /\ call = NoCall

CallGetAllGenerations ==
    /\ call.op = "none"
    /\ \E failAt \in 0..Len(paginate) :
          call' = [op |-> "get_all_generations", failAt |-> failAt,
                   failed |-> ListingFails(failAt),
                   catalog |-> get_all_generations(failAt), args |-> <<>>,
                   result |-> get_all_generations(failAt)]
    /\ UNCHANGED <<store, images, compStore, s3fault, dashboardVars>>

CallGetAvailableFilters ==
    /\ call.op = "none"
    /\ \E failAt \in 0..Len(paginate) :
          call' = [op |-> "get_available_filters", failAt |-> failAt,
                   failed |-> ListingFails(failAt),
                   catalog |-> get_all_generations(failAt), args |-> <<>>,
                   result |-> get_available_filters(failAt)]
    /\ UNCHANGED <<store, images, compStore, s3fault, dashboardVars>>

NextCatalog == CallGetAllGenerations \/ CallGetAvailableFilters

SpecCatalog == InitCatalog /\ [][NextCatalog]_vars

(***************************************************************************)
(* SpecFilter: apply_filters called on the catalogs that                   *)
(* get_all_generations builds, with every selection of the model.          *)
(***************************************************************************)
ApproachChoices ==
    {<<>>, <<PStr("single_lora")>>, <<PStr("combined"), PStr("single_lora")>>,
     <<PStr("Baseline")>>}

BaseModelChoices == {<<>>, <<PStr("sd15")>>, <<PStr("SDXL"), PStr("sd15")>>}

LoraModelChoices == {<<>>, <<PStr("floorplan")>>, <<PStr("sketch")>>}

QueryChoices == {"", "bedroom", "BED", "kitchen", "bedroom two", "attic"}

FilterDocs == {DocA, DocB, DocC, DocOdd}

InitFilter ==
    /\ \E b1, b2, b3 \in {[state |-> "ok", doc |-> d] : d \in FilterDocs} \cup {Absent} :
          store = StoreOf(b1, b2, b3, Absent)
    /\ images = {}
    /\ s3fault = "none"
    /\ compStore = <<>>
    /\ service = "none"
    /\ now = 0
    /\ genCache = NoCache
    /\ filtCache = NoCache
    /\ pc = "idle"
    /\ generations = get_all_generations(0)
    /\ filters_data = NoFilters
    /\ selection = NoSelection
    /\ filtered = <<>>
    /\ ui = "none"
    /\ scanLog = NoScans
    /\ call = NoCall

CallApplyFilters ==
    /\ call.op = "none"
    /\ \E a \in ApproachChoices, b \in BaseModelChoices,
          l \in LoraModelChoices, q \in QueryChoices :
          call' = [op |-> "apply_filters", failAt |-> 0, failed |-> FALSE,
                   catalog |-> generations,
                   args |-> [approaches |-> a, base_models |-> b,
                             lora_models |-> l, search_query |-> q],
                   result |-> apply_filters(generations, a, b, l, q)]
    /\ UNCHANGED <<store, images, compStore, s3fault, dashboardVars>>

NextFilter == CallApplyFilters

SpecFilter == InitFilter /\ [][NextFilter]_vars

(***************************************************************************)
(* Spec: the dashboard.  A request runs main() in three steps, the two     *)
(* cached reads (each a network scan on a miss) and the sidebar with       *)
(* apply_filters; between the steps the bucket may change and time pass.   *)
(* scanLog records, for each of the request's two reads, "cached" (served  *)
(* from st.cache_data), "ok" (scanned) or "failed" (the listing raised and *)
(* the service reported it with st.error, lines 78 and 177 of the service).*)
(***************************************************************************)
TTL == 300

DashStores ==
    {StoreOf(b1, b2, Absent, Absent) :
        b1 \in {Absent, [state |-> "ok", doc |-> DocA]},
        b2 \in {Absent, [state |-> "ok", doc |-> DocB], [state |-> "ok", doc |-> DocOdd]}}

Init ==
    /\ store \in DashStores
    /\ images = {ImgPng}
    /\ s3fault = "none"
    /\ compStore = <<>>
    /\ DashboardIdle
    /\ call = NoCall

CacheNeverExpires(entry) == entry.valid

\* st.cache_data(ttl=300): the entry is served until it is TTL seconds old
CacheFresh(entry) == entry.valid /\ now < entry.at + TTL

\* line 48 on a miss with no service yet: S3GalleryService() raises, nothing
\* is cached and main() reports the error, lines 55-57
LoadGenerationsInitFails ==
    /\ pc = "idle"
    /\ ~CacheFresh(genCache)
    /\ service = "none"
    /\ ui' = "error"
    /\ pc' = "done"
    /\ UNCHANGED <<store, images, compStore, s3fault, service, now, genCache, filtCache,
                   generations, filters_data, selection, filtered, scanLog, call>>

\* line 48: generations = load_all_generations()
LoadGenerations ==
    /\ pc = "idle"
    /\ IF CacheFresh(genCache)
       THEN /\ generations' = genCache.val
            /\ scanLog' = [scanLog EXCEPT !.generations = "cached"]
            /\ UNCHANGED <<genCache, service>>
       ELSE \E failAt \in 0..Len(paginate) :
            /\ generations' = get_all_generations(failAt)
            /\ genCache' = [valid |-> TRUE, at |-> now, failed |-> ListingFails(failAt),
                            val |-> get_all_generations(failAt)]
            /\ scanLog' = [scanLog EXCEPT !.generations =
                              IF ListingFails(failAt) THEN "failed" ELSE "ok"]
            /\ service' = "ready"
    /\ pc' = "filters"
    /\ UNCHANGED <<store, images, compStore, s3fault, now, filtCache, filters_data,
                   selection, filtered, ui, call>>

\* lines 49-53: filters_data = get_available_filters(), then the check of
\* an empty catalog
LoadFilters ==
    /\ pc = "filters"
    /\ IF CacheFresh(filtCache)
       THEN /\ filters_data' = filtCache.val
            /\ scanLog' = [scanLog EXCEPT !.filters = "cached"]
            /\ UNCHANGED filtCache
       ELSE \E failAt \in 0..Len(paginate) :
            /\ filters_data' = get_available_filters(failAt)
            /\ filtCache' = [valid |-> TRUE, at |-> now, failed |-> ListingFails(failAt),
                             val |-> get_available_filters(failAt)]
            /\ scanLog' = [scanLog EXCEPT !.filters =
                              IF ListingFails(failAt) THEN "failed" ELSE "ok"]
    /\ IF Len(generations) = 0
       THEN ui' = "warning_empty" /\ pc' = "done"
       ELSE ui' = ui /\ pc' = "sidebar"
    /\ UNCHANGED <<store, images, compStore, s3fault, service, now, genCache, generations,
                   selection, filtered, call>>

\* the values a multiselect can return: its default (all options) or, after
\* the user cleared it, none
Selectable(options) == {options, <<>>}

\* lines 62-108: the widgets, apply_filters and the tabs; an exception of
\* apply_filters is not caught
Render ==
    /\ pc = "sidebar"
    /\ \E a \in Selectable(filters_data.approaches),
          b \in Selectable(filters_data.base_models),
          l \in Selectable(filters_data.lora_models),
          q \in {"", "bedroom"} :
          LET out == apply_filters(generations, a, b, l, q)
          IN  /\ selection' = [approaches |-> a, base_models |-> b, lora_models |-> l,
                               search_query |-> q,
                               changed |-> \/ a # filters_data.approaches
                                           \/ b # filters_data.base_models
                                           \/ l # filters_data.lora_models
                                           \/ q # ""]
              /\ filtered' = out.value
              /\ ui' = IF out.raised THEN "exception" ELSE "rendered"
    /\ pc' = "done"
    /\ UNCHANGED <<store, images, compStore, s3fault, service, now, genCache, filtCache,
                   generations, filters_data, scanLog, call>>

\* the next interaction reruns main()
NewRequest ==
    /\ pc = "done"
    /\ pc' = "idle"
    /\ generations' = <<>>
    /\ filters_data' = NoFilters
    /\ selection' = NoSelection
    /\ filtered' = <<>>
    /\ ui' = "none"
    /\ scanLog' = NoScans
    /\ UNCHANGED <<store, images, compStore, s3fault, service, now, genCache, filtCache, call>>

\* another writer puts or deletes metadata objects
StoreChanges ==
    /\ \E s \in DashStores : s # store /\ store' = s
    /\ UNCHANGED <<images, compStore, s3fault, dashboardVars, call>>

Tick ==
    /\ now + TickStep <= MaxTime
    /\ now' = now + TickStep
    /\ UNCHANGED <<store, images, compStore, s3fault, service, genCache, filtCache, pc,
                   generations, filters_data, selection, filtered, ui, scanLog, call>>

Next ==
    \/ LoadGenerationsInitFails
    \/ LoadGenerations
    \/ LoadFilters
    \/ Render
    \/ NewRequest
    \/ StoreChanges
    \/ Tick

Spec == Init /\ [][Next]_vars

(***************************************************************************)
(* Claims about the catalog scan (SpecCatalog).                            *)
(***************************************************************************)
StoredObjects == {store[i] : i \in 1..Len(store)}

JsonKeysListed == {o.Key : o \in {x \in StoredObjects : EndsWith(x.Key, ".json")}}

\* the object is a JSON object that has the three required fields
HasRequiredFields(o) ==
    /\ o.state = "ok"
    /\ o.doc.t = "dict"
    /\ {"generation_id", "approach", "model_config"} \subseteq DOMAIN o.doc.v

KeysOf(gens) == [i \in 1..Len(gens) |-> gens[i].v["metadata_key"].v]

RetainedAt(gens, k) == {i \in 1..Len(gens) : KeysOf(gens)[i] = k}

\* C1: every record returned by get_all_generations has generation_id,
\* approach and model_config; a listed .json key whose object lacks one of
\* them is excluded; a listed .json key contributes at most one record, so
\* excluded keys plus retained records are the .json keys listed.
C1_RecordsValidAndCounted ==
    call.op = "get_all_generations" =>
        LET gens == call.result
            excluded == {k \in JsonKeysListed : RetainedAt(gens, k) = {}}
        IN  /\ \A i \in 1..Len(gens) :
                  {"generation_id", "approach", "model_config"} \subseteq DOMAIN gens[i].v
            /\ \A o \in StoredObjects :
                  EndsWith(o.Key, ".json") /\ ~HasRequiredFields(o)
                      => RetainedAt(gens, o.Key) = {}
            /\ \A k \in JsonKeysListed : Cardinality(RetainedAt(gens, k)) <= 1
            /\ Cardinality(excluded) + Len(gens) = Cardinality(JsonKeysListed)

\* the scan kept one record and dropped a .json object that lacks model_config,
\* beside a .txt object that holds a complete record
C1_Witness ==
    /\ call.op = "get_all_generations"
    /\ Len(call.result) = 1
    /\ \E o \in StoredObjects : o.Key = KeyG1 /\ o.state = "ok" /\ o.doc = DocNoConfig
    /\ \E o \in StoredObjects : o.Key = KeyTxt

\* the keys of the listing, in order, whose objects load and validate
RECURSIVE ValidKeysInOrder(_)
ValidKeysInOrder(objs) ==
    IF Len(objs) = 0 THEN <<>>
    ELSE (IF EndsWith(objs[1].Key, ".json") /\ HasRequiredFields(objs[1])
          THEN <<objs[1].Key>> ELSE <<>>) \o ValidKeysInOrder(Tail(objs))

\* C2: when the listing succeeds, no failure on one listed object aborts
\* get_all_generations: the result holds, in listing order, a record for
\* every listed .json object that loads and validates, with the stored fields.
C2_PerObjectFailureIsolated ==
    call.op = "get_all_generations" /\ ~call.failed =>
        LET gens == call.result
        IN  /\ KeysOf(gens) = ValidKeysInOrder(store)
            /\ \A i \in 1..Len(gens) :
                  LET doc == get_object(KeysOf(gens)[i]).doc
                  IN  \A f \in DOMAIN doc.v \ {"metadata_key", "image_key"} :
                          gens[i].v[f] = doc.v[f]

\* a successful listing with an object whose processing raises (a JSON
\* number), listed before a record that is kept
C2_Witness ==
    /\ call.op = "get_all_generations"
    /\ ~call.failed
    /\ Len(store) >= 2
    /\ store[1].state = "ok" /\ store[1].doc = DocNum
    /\ Len(call.result) = 1
    /\ KeysOf(call.result) = <<KeyG2>>

\* C3: when the listing fails, on the first page or on a later one,
\* get_all_generations returns the empty list, never the records collected
\* before the failure.
C3_ListingFailureReturnsEmpty ==
    call.op = "get_all_generations" /\ call.failed => call.result = <<>>

\* the second page fails after the first page held a valid record
C3_Witness ==
    /\ call.op = "get_all_generations"
    /\ call.failed
    /\ call.failAt = 2
    /\ EndsWith(store[1].Key, ".json") /\ HasRequiredFields(store[1])
    /\ call.result = <<>>

StrictlyAscending(seq) ==
    \A i \in 1..Len(seq), j \in 1..Len(seq) :
        i < j => seq[i].t = seq[j].t /\ PyLess(seq[i], seq[j])

\* C5: each of the three sequences returned by get_available_filters is
\* sorted ascending without duplicates; for an empty catalog all three are
\* empty.
C5_FilterOptionsSortedUnique ==
    call.op = "get_available_filters" =>
        /\ StrictlyAscending(call.result.approaches)
        /\ StrictlyAscending(call.result.base_models)
        /\ StrictlyAscending(call.result.lora_models)
        /\ (call.catalog = <<>> => call.result = NoFilters)

\* two approaches and two base models, an upper-case one sorting first
C5_Witness ==
    /\ call.op = "get_available_filters"
    /\ call.result.approaches = <<PStr("Baseline"), PStr("single_lora")>>
    /\ call.result.base_models = <<PStr("SDXL"), PStr("sd15")>>

(***************************************************************************)
(* Claims about apply_filters (SpecFilter).                                *)
(***************************************************************************)
\* C7: apply_filters with the three filter lists empty and no search text
\* returns the input catalog, same records in the same order.
C7_EmptyFiltersIdentity ==
    /\ call.op = "apply_filters"
    /\ call.args.approaches = <<>>
    /\ call.args.base_models = <<>>
    /\ call.args.lora_models = <<>>
    /\ call.args.search_query = ""
    => ~call.result.raised /\ call.result.value = call.catalog

\* an unfiltered call on a catalog of three records, one of them odd-typed
C7_Witness ==
    /\ call.op = "apply_filters"
    /\ call.args = [approaches |-> <<>>, base_models |-> <<>>,
                    lora_models |-> <<>>, search_query |-> ""]
    /\ Len(call.catalog) = 3
    /\ \E i \in 1..3 : call.catalog[i].v["generation_id"] = PStr("g4")
    /\ call.result.value = call.catalog

\* the value of model_config[field] of a record, None where there is none
ModelField(g, field) ==
    LET mc == Get(g, "model_config", EmptyDict)
    IN  IF mc.t = "dict" /\ field \in DOMAIN mc.v THEN mc.v[field] ELSE PNone

\* the prompt text and the joined tags of a record, "" where there is none
PromptText(g) ==
    LET pi == Get(g, "prompt_info", EmptyDict)
    IN  IF pi.t = "dict" /\ "original" \in DOMAIN pi.v /\ pi.v["original"].t = "str"
        THEN pi.v["original"].v ELSE ""

TagsJoined(g) ==
    LET tags == Get(g, "tags", EmptyList)
    IN  IF tags.t = "list" /\ \A i \in 1..Len(tags.v) : tags.v[i].t = "str"
        THEN Join(" ", [i \in 1..Len(tags.v) |-> tags.v[i].v]) ELSE ""

PassesText(g, q) ==
    \/ IsSubstring(lower(q), lower(PromptText(g)))
    \/ IsSubstring(lower(q), lower(TagsJoined(g)))

AsSet(seq) == {seq[i] : i \in 1..Len(seq)}

PassesAll(g, args) ==
    /\ args.approaches = <<>> \/ Get(g, "approach", PNone) \in AsSet(args.approaches)
    /\ args.base_models = <<>> \/ ModelField(g, "base_model") \in AsSet(args.base_models)
    /\ args.lora_models = <<>> \/ ModelField(g, "lora_model") \in AsSet(args.lora_models)
    /\ args.search_query = "" \/ PassesText(g, args.search_query)

\* C8: a record is in the result of apply_filters exactly when it passes
\* every non-empty filter (approach, base_model, lora_model by membership,
\* the search text by substring); the result keeps the input's order.
C8_FiltersComposeByAnd ==
    call.op = "apply_filters" /\ ~call.result.raised =>
        call.result.value = SelectSeq(call.catalog, LAMBDA g : PassesAll(g, call.args))

\* all four filters set, two records kept in order and one dropped
C8_Witness ==
    /\ call.op = "apply_filters"
    /\ ~call.result.raised
    /\ call.args.approaches # <<>> /\ call.args.base_models # <<>>
    /\ call.args.lora_models # <<>> /\ call.args.search_query # ""
    /\ Len(call.catalog) = 3
    /\ Len(call.result.value) = 2
    /\ call.result.value[1].v["metadata_key"] = PStr(KeyG1)
    /\ call.result.value[2].v["metadata_key"] = PStr(KeyG3)

IdsOf(gens) == {gens[i].v["generation_id"] : i \in 1..Len(gens)}

\* C9: with a search text and no other filter, apply_filters returns the
\* records whose lower-cased prompt or lower-cased joined tags contain the
\* lower-cased text; for "bedroom", "A BEDROOM floor plan" matches, "a
\* kitchen" tagged "Bedroom" matches through its tag, "garage" tagged "car"
\* does not.
C9_SearchMatchesPromptOrTags ==
    /\ call.op = "apply_filters"
    /\ ~call.result.raised
    /\ call.args.approaches = <<>>
    /\ call.args.base_models = <<>>
    /\ call.args.lora_models = <<>>
    /\ call.args.search_query # ""
    => /\ call.result.value =
              SelectSeq(call.catalog, LAMBDA g : PassesText(g, call.args.search_query))
       /\ call.args.search_query = "bedroom" =>
              IdsOf(call.result.value) = IdsOf(call.catalog) \cap {PStr("g1"), PStr("g2")}

\* "bedroom" over the three records of the example: the prompt match and
\* the tag match are kept, the third record is dropped
C9_Witness ==
    /\ call.op = "apply_filters"
    /\ call.args = [approaches |-> <<>>, base_models |-> <<>>,
                    lora_models |-> <<>>, search_query |-> "bedroom"]
    /\ IdsOf(call.catalog) = {PStr("g1"), PStr("g2"), PStr("g3")}
    /\ ~call.result.raised
    /\ IdsOf(call.result.value) = {PStr("g1"), PStr("g2")}

(***************************************************************************)
(* Claims about the dashboard request (Spec).                              *)
(***************************************************************************)
\* C4: a failure of the listing under metadata/by_generation/ reaches the
\* caller as a hard error: the request whose catalog scan failed ends in
\* main()'s error state (lines 55-57), not in the state an empty bucket
\* gives (lines 51-53).
C4_ListingFailureIsHardError ==
    pc = "done" /\ scanLog.generations = "failed" => ui = "error"

\* records as the data model describes them: approach a string,
\* model_config a mapping of strings
WellFormed(gens) ==
    \A i \in 1..Len(gens) :
        /\ Get(gens[i], "approach", PNone).t = "str"
        /\ Get(gens[i], "model_config", PNone).t = "dict"
        /\ \A f \in DOMAIN gens[i].v["model_config"].v :
               gens[i].v["model_config"].v[f].t = "str"

FiltersMatchCatalog ==
    /\ AsSet(filters_data.approaches) = approaches_of(generations)
    /\ AsSet(filters_data.base_models) = model_values_of(generations, "base_model")
    /\ AsSet(filters_data.lora_models) = model_values_of(generations, "lora_model")

\* C6: in every request the filter options handed to the sidebar are exactly
\* the approach, base_model and lora_model values of the catalog handed to
\* it in the same request.
C6_FilterOptionsMatchCatalog ==
    pc = "sidebar" /\ WellFormed(generations) => FiltersMatchCatalog

\* C10: a request in which the user changed no filter (the default
\* selections, no search text) shows the whole catalog, records without
\* base_model or lora_model included.
C10_UnfilteredShowsWholeCatalog ==
    /\ pc = "done"
    /\ ui \in {"rendered", "exception"}
    /\ ~selection.changed
    /\ WellFormed(generations)
    /\ FiltersMatchCatalog
    => ui = "rendered" /\ filtered = generations

(***************************************************************************)
(* Images: get_image, s3_service.py lines 134-146, and the gallery cards,  *)
(* app.py lines 146-215.  A card is [image, notice, shown]: whether the    *)
(* picture was drawn, the st.error of the card ("none", "not_found" or     *)
(* "error") and the lines written under it, by label.                      *)
(***************************************************************************)
items_per_page == 12

\* get_object and Image.open of an image: "image", or "none" after any
\* exception (no such key, access denied, no connection, bytes that are no
\* picture)
get_image(image_key) ==
    IF ~Truthy(image_key) THEN "none"
    ELSE IF image_key.t = "str" /\ s3fault = "none" /\ image_key.v \in images
         THEN "image"
    ELSE "none"

\* helpers.py lines 5-13, for a string
truncate_text(text, max_length) ==
    IF text = "" THEN "N/A"
    ELSE IF Len(text) <= max_length THEN text
    ELSE SubSeq(text, 1, max_length - 3) \o "..."

\* truncate_text(original_prompt, 80): len() of a number raises TypeError
TruncateRaises(x) == x.t = "num" /\ Truthy(x)

\* ', '.join(tags[:3]), line 201, for tags that are truthy
TagsLineRaises(tags) ==
    /\ Truthy(tags)
    /\ CASE tags.t = "list" ->
                \E i \in 1..Len(tags.v) : i <= 3 /\ tags.v[i].t # "str"
         [] tags.t = "str" -> FALSE
         [] OTHER -> TRUE

\* display_detailed_metadata, lines 217-271, raises: .items() or .get() of a
\* value that is no dict, or a join of tags that are no strings
DetailsRaise(generation) ==
    LET prompt_info == Get(generation, "prompt_info", EmptyDict)
        structure == Get(prompt_info, "structure", EmptyDict)
        tags == Get(generation, "tags", EmptyList)
    IN  \/ Truthy(prompt_info) /\ Truthy(structure) /\ ~HasGet(structure)
        \/ ~HasGet(Get(generation, "generation_params", EmptyDict))
        \/ Truthy(tags) /\ JoinRaises(tags)
        \/ LET device_info == Get(generation, "device_info", EmptyDict)
           IN  Truthy(device_info) /\ ~HasGet(device_info)

\* the last line of lines 186-205 that was written before an exception: 0
\* when the prompt line raises, ..., 4 when the details raise, 5 for no raise
CardProgress(generation) ==
    LET prompt_info == Get(generation, "prompt_info", EmptyDict)
    IN  IF ~HasGet(prompt_info) THEN 0
        ELSE IF TruncateRaises(Get(prompt_info, "original", PStr("N/A"))) THEN 0
        ELSE IF ~HasGet(Get(generation, "model_config", EmptyDict)) THEN 2
        ELSE IF TagsLineRaises(Get(generation, "tags", EmptyList)) THEN 3
        ELSE IF DetailsRaise(generation) THEN 4
        ELSE 5

\* lines 186-205: the card of a record whose image was loaded
ImageCard(generation) ==
    LET n == CardProgress(generation)
        original == Get(Get(generation, "prompt_info", EmptyDict), "original", PStr("N/A"))
        lines == << <<"Prompt", IF original.t = "str"
                                THEN PStr(truncate_text(original.v, 80))
                                ELSE original>>,
                    <<"Approche", Get(generation, "approach", PStr("N/A"))>>,
                    <<"Modele", Get(Get(generation, "model_config", EmptyDict),
                                    "lora_model", PStr("N/A"))>>,
                    <<"Tags", Get(generation, "tags", EmptyList)>>,
                    <<"Details", Get(generation, "generation_id", PStr("N/A"))>> >>
        written == {i \in 1..5 : i <= n /\ (i = 4 => Truthy(lines[4][2]))}
        failed == IF n = 5 THEN {}
                  ELSE {<<"ID", Get(generation, "generation_id", PStr("N/A"))>>,
                        <<"Chemin image", Get(generation, "image_key", PStr("N/A"))>>}
    IN  [image |-> TRUE,
         notice |-> IF n = 5 THEN "none" ELSE "error",
         shown |-> {lines[i] : i \in written} \cup failed]

display_image_card_aborting(generation) ==
    IF "image_key" \notin DOMAIN generation.v
    THEN [image |-> FALSE, notice |-> "error",
          shown |-> {<<"ID", Get(generation, "generation_id", PStr("N/A"))>>,
                     <<"Chemin image", PStr("N/A")>>}]
    ELSE IF get_image(generation.v["image_key"]) = "none"
    THEN [image |-> FALSE, notice |-> "aborted", shown |-> {}]
    ELSE ImageCard(generation)

\* lines 177-215
display_image_card(generation) ==
    IF "image_key" \notin DOMAIN generation.v
    THEN [image |-> FALSE, notice |-> "error",
          shown |-> {<<"ID", Get(generation, "generation_id", PStr("N/A"))>>,
                     <<"Chemin image", PStr("N/A")>>}]
    ELSE IF get_image(generation.v["image_key"]) = "none"
    THEN [image |-> FALSE, notice |-> "not_found",
          shown |-> {<<"ID", Get(generation, "generation_id", PStr("N/A"))>>,
                     <<"Approche", Get(generation, "approach", PStr("N/A"))>>,
                     <<"Chemin", Get(generation, "image_key", PStr("N/A"))>>}]
    ELSE ImageCard(generation)

\* lines 146-175: the cards of page `page` (0 when there is one page)
display_gallery(gens, page) ==
    LET start_idx == page * items_per_page
        end_idx == IF start_idx + items_per_page < Len(gens)
                   THEN start_idx + items_per_page ELSE Len(gens)
    IN  [i \in 1..(end_idx - start_idx) |-> display_image_card(gens[start_idx + i])]

(***************************************************************************)
(* SpecImage: the existence probe, the resolution of a record's image key, *)
(* get_image and the gallery, over buckets that hold any of the three      *)
(* images of record g1, under every condition of the store.                *)
(***************************************************************************)
ImgDebug == "images/debug/g1.png"

\* g1 whose s3_paths.main_image is a storage key, not a URL
DocPlainPath ==
    PDict([generation_id |-> PStr("g1"), approach |-> PStr("single_lora"),
           model_config |-> PDict([base_model |-> PStr("sd15")]),
           prompt_info |-> PDict([original |-> PStr("two bedrooms")]),
           s3_paths |-> PDict([main_image |-> PStr(ImgDebug)])])

\* g1 without s3_paths
DocBare ==
    PDict([generation_id |-> PStr("g1"), approach |-> PStr("single_lora"),
           model_config |-> EmptyDict])

\* "garbled": the objects are there, the bytes of the images are no pictures
ImageFaults == Faults \cup {"garbled"}

ImageDocs1 == {DocA, DocPlainPath, DocBare}

ImageDocs2 == {DocB, DocOdd, DocNoConfig}

InitImage ==
    /\ \E d1 \in ImageDocs1,
          b2 \in {[state |-> "ok", doc |-> d] : d \in ImageDocs2} \cup {Absent} :
          store = StoreOf([state |-> "ok", doc |-> d1], b2, Absent, Absent)
    /\ images \in SUBSET {ImgPng, ImgJpg, ImgDebug}
    /\ s3fault \in ImageFaults
    /\ compStore = <<>>
    /\ DashboardIdle
    /\ call = NoCall

\* _object_exists(key) called directly: the result is [raised, value]
CallObjectExists ==
    /\ call.op = "none"
    /\ \E key \in {ImgPng, ImgJpg, ImgDebug} :
          call' = [op |-> "_object_exists", failAt |-> 0, failed |-> FALSE,
                   catalog |-> <<>>, args |-> key,
                   result |-> IF _object_exists_raises(key)
                              THEN [raised |-> TRUE, value |-> FALSE]
                              ELSE [raised |-> FALSE, value |-> _object_exists(key)]]
    /\ UNCHANGED <<store, images, compStore, s3fault, dashboardVars>>

\* _get_image_key_from_metadata called as line 69 calls it, on a record that
\* validated and carries its metadata_key
CallGetImageKey ==
    /\ call.op = "none"
    /\ \E i \in 1..Len(store) :
          /\ HasGet(_load_metadata_from_s3(store[i].Key))
          /\ _validate_generation_metadata(_load_metadata_from_s3(store[i].Key))
          /\ LET metadata == DictSet(_load_metadata_from_s3(store[i].Key),
                                     "metadata_key", PStr(store[i].Key))
             IN  call' = [op |-> "_get_image_key_from_metadata", failAt |-> 0,
                          failed |-> FALSE, catalog |-> <<>>, args |-> metadata,
                          result |-> _get_image_key_from_metadata(metadata)]
    /\ UNCHANGED <<store, images, compStore, s3fault, dashboardVars>>

\* the catalog is scanned and the gallery shows its first page
CallDisplayGallery ==
    /\ call.op = "none"
    /\ \E failAt \in 0..Len(paginate) :
          call' = [op |-> "display_gallery", failAt |-> failAt,
                   failed |-> ListingFails(failAt),
                   catalog |-> get_all_generations(failAt), args |-> <<>>,
                   result |-> display_gallery(get_all_generations(failAt), 0)]
    /\ UNCHANGED <<store, images, compStore, s3fault, dashboardVars>>

NextImage == CallObjectExists \/ CallGetImageKey \/ CallDisplayGallery

SpecImage == InitImage /\ [][NextImage]_vars

(***************************************************************************)
(* Claims about images (SpecImage).                                        *)
(***************************************************************************)
PngKeyOf(metadata) ==
    "images/by_approach/" \o Format(metadata.v["approach"]) \o "/"
        \o Format(metadata.v["generation_id"]) \o ".png"

JpgKeyOf(metadata) ==
    "images/by_approach/" \o Format(metadata.v["approach"]) \o "/"
        \o Format(metadata.v["generation_id"]) \o ".jpg"

\* the existence probe finds the key
ProbeFinds(key) == head_object(key) = "ok"

HasMainImage(metadata) ==
    /\ "s3_paths" \in DOMAIN metadata.v
    /\ metadata.v["s3_paths"].t = "dict"
    /\ "main_image" \in DOMAIN metadata.v["s3_paths"].v

\* C11: _get_image_key_from_metadata returns the .png key if the probe finds
\* it; else the .jpg key if the probe finds it; else the storage key parsed
\* from s3_paths.main_image if the record has that field (for a URL, what
\* follows the host); else None.
C11_ImageKeyResolvedInOrder ==
    call.op = "_get_image_key_from_metadata" =>
        LET metadata == call.args
        IN  IF ProbeFinds(PngKeyOf(metadata)) THEN call.result = PStr(PngKeyOf(metadata))
            ELSE IF ProbeFinds(JpgKeyOf(metadata))
                 THEN call.result = PStr(JpgKeyOf(metadata))
            ELSE IF HasMainImage(metadata)
                 THEN /\ call.result.t = "str"
                      /\ metadata.v["s3_paths"].v["main_image"] =
                             PStr("https://plans.s3.amazonaws.com/" \o ImgDebug)
                         => call.result = PStr(ImgDebug)
            ELSE call.result = PNone

\* C12: _object_exists never raises; it returns True when head_object
\* succeeds and False for every error of the probe.
C12_ProbeFailsClosed ==
    call.op = "_object_exists" =>
        /\ ~call.result.raised
        /\ call.result.value = ProbeFinds(call.args)

\* no picture can be had for the key: there is no key, no such object, or
\* the store does not hand out a picture
Unfetchable(image_key) ==
    \/ image_key = PNone
    \/ image_key.v \notin images
    \/ s3fault # "none"

\* C13: every listed record that validates is in the catalog whatever
\* becomes of its image, with image_key None when neither probe finds a key
\* and the record names no main image; the gallery draws one card per
\* record, and the card of a record whose picture cannot be had carries the
\* not-found notice with the record's generation_id and approach.
C13_MissingImageKeepsRecord ==
    call.op = "display_gallery" /\ ~call.failed =>
        LET gens == call.catalog
            cards == call.result
        IN  /\ KeysOf(gens) = ValidKeysInOrder(store)
            /\ Len(cards) = Len(gens)
            /\ \A i \in 1..Len(gens) :
                  /\ "image_key" \in DOMAIN gens[i].v
                  /\ (/\ ~ProbeFinds(PngKeyOf(gens[i]))
                      /\ ~ProbeFinds(JpgKeyOf(gens[i]))
                      /\ ~HasMainImage(gens[i])) => gens[i].v["image_key"] = PNone
                  /\ Unfetchable(gens[i].v["image_key"]) =>
                        /\ ~cards[i].image
                        /\ cards[i].notice = "not_found"
                        /\ <<"ID", gens[i].v["generation_id"]>> \in cards[i].shown
                        /\ <<"Approche", gens[i].v["approach"]>> \in cards[i].shown

\* a gallery of two records: the first with its picture, the second without
\* an image key and shown as not found
C13_Witness ==
    /\ call.op = "display_gallery"
    /\ Len(call.catalog) = 2
    /\ call.result[1].image /\ call.result[1].notice = "none"
    /\ call.catalog[2].v["image_key"] = PNone
    /\ call.result[2].notice = "not_found"
    /\ <<"ID", PStr("g2")>> \in call.result[2].shown

(***************************************************************************)
(* calculate_statistics, utils/helpers.py lines 152-192.  The result is    *)
(* [raised, value]; a dict of counts is a function from its keys; the mean *)
(* sum / len is the fraction [num, den].                                   *)
(***************************************************************************)
\* isinstance(gen_time, (int, float)) and gen_time > 0, line 184
TimeCounts(gen) ==
    LET gen_time == Get(gen, "generation_time", PNum(0))
    IN  gen_time.t = "num" /\ gen_time.v > 0

\* generation_times, lines 166 and 183-185
generation_times(gens) ==
    LET kept == SelectSeq(gens, TimeCounts)
    IN  [i \in 1..Len(kept) |-> kept[i].v["generation_time"].v]

RECURSIVE sum(_)
sum(numbers) ==
    IF Len(numbers) = 0 THEN 0 ELSE Head(numbers) + sum(Tail(numbers))

\* the counts built by stats[...][x] = stats[...].get(x, 0) + 1 over values
CountsOf(values) ==
    [x \in {values[i] : i \in 1..Len(values)} |->
        Cardinality({i \in 1..Len(values) : values[i] = x})]

\* the records whose model_config is a dict, line 175
WithModelConfig(gens) ==
    SelectSeq(gens, LAMBDA gen : Get(gen, "model_config", EmptyDict).t = "dict")

\* a dict key that is a dict or a list raises TypeError
StatisticsRaise(gens) ==
    \/ \E i \in 1..Len(gens) : Unhashable(Get(gens[i], "approach", PStr("Unknown")))
    \/ \E i \in 1..Len(WithModelConfig(gens)) :
          LET model_config == WithModelConfig(gens)[i].v["model_config"]
          IN  \/ Unhashable(Get(model_config, "base_model", PStr("Unknown")))
              \/ Unhashable(Get(model_config, "lora_model", PStr("Unknown")))

calculate_statistics(gens) ==
    IF Len(gens) = 0 THEN [raised |-> FALSE, value |-> <<>>]
    ELSE IF StatisticsRaise(gens) THEN [raised |-> TRUE, value |-> <<>>]
    ELSE LET configured == WithModelConfig(gens)
             times == generation_times(gens)
         IN  [raised |-> FALSE,
              value |->
                [total_generations |-> Len(gens),
                 approaches |->
                    CountsOf([i \in 1..Len(gens) |->
                                 Get(gens[i], "approach", PStr("Unknown"))]),
                 base_models |->
                    CountsOf([i \in 1..Len(configured) |->
                                 Get(configured[i].v["model_config"], "base_model",
                                     PStr("Unknown"))]),
                 lora_models |->
                    CountsOf([i \in 1..Len(configured) |->
                                 Get(configured[i].v["model_config"], "lora_model",
                                     PStr("Unknown"))]),
                 avg_generation_time |->
                    IF Len(times) > 0 THEN [num |-> sum(times), den |-> Len(times)]
                    ELSE [num |-> 0, den |-> 1],
                 total_generation_time |-> IF Len(times) > 0 THEN sum(times) ELSE 0]]

(***************************************************************************)
(* SpecStats: calculate_statistics called on the catalogs that             *)
(* get_all_generations builds from records with and without a usable       *)
(* generation_time.                                                        *)
(***************************************************************************)
\* DocA's fields with the given generation_time
Timed(generation_time) ==
    DictSet(DocA, "generation_time", generation_time)

\* model_config holds the model's name, not a mapping
DocFlatConfig ==
    PDict([generation_id |-> PStr("g5"), approach |-> PStr("single_lora"),
           model_config |-> PStr("sd15"), generation_time |-> PNum(20)])

StatDocs ==
    {Timed(PNum(10)), DictSet(DocB, "generation_time", PNum(20)),
     DictSet(DocC, "generation_time", PStr("bad")), Timed(PNum(0)),
     Timed(PNum(-5)), DocB, DocFlatConfig}

InitStats ==
    /\ \E b1, b2, b3 \in {[state |-> "ok", doc |-> d] : d \in StatDocs} \cup {Absent} :
          store = StoreOf(b1, b2, b3, Absent)
    /\ images = {}
    /\ s3fault = "none"
    /\ compStore = <<>>
    /\ service = "none"
    /\ now = 0
    /\ genCache = NoCache
    /\ filtCache = NoCache
    /\ pc = "idle"
    /\ generations = get_all_generations(0)
    /\ filters_data = NoFilters
    /\ selection = NoSelection
    /\ filtered = <<>>
    /\ ui = "none"
    /\ scanLog = NoScans
    /\ call = NoCall

CallCalculateStatistics ==
    /\ call.op = "none"
    /\ call' = [op |-> "calculate_statistics", failAt |-> 0, failed |-> FALSE,
                catalog |-> generations, args |-> <<>>,
                result |-> calculate_statistics(generations)]
    /\ UNCHANGED <<store, images, compStore, s3fault, dashboardVars>>

NextStats == CallCalculateStatistics

SpecStats == InitStats /\ [][NextStats]_vars

(***************************************************************************)
(* Claims about calculate_statistics (SpecStats).                          *)
(***************************************************************************)
\* generation_time is there and is a number that is not negative
UsableTime(gen) ==
    /\ "generation_time" \in DOMAIN gen.v
    /\ gen.v["generation_time"].t = "num"
    /\ gen.v["generation_time"].v >= 0

RECURSIVE UsableTimeTotal(_)
UsableTimeTotal(gens) ==
    IF Len(gens) = 0 THEN 0
    ELSE (IF UsableTime(Head(gens)) THEN Head(gens).v["generation_time"].v ELSE 0)
             + UsableTimeTotal(Tail(gens))

UsableTimeCount(gens) == Cardinality({i \in 1..Len(gens) : UsableTime(gens[i])})

\* C14: total_generation_time is the sum, and avg_generation_time the mean,
\* of generation_time over the records where it is a number >= 0 (0
\* included); other records are in neither the sum nor the divisor.
C14_TimeStatisticsOverUsable ==
    call.op = "calculate_statistics" /\ Len(call.catalog) > 0 =>
        /\ ~call.result.raised
        /\ call.result.value.total_generation_time = UsableTimeTotal(call.catalog)
        /\ UsableTimeCount(call.catalog) > 0 =>
              call.result.value.avg_generation_time.num * UsableTimeCount(call.catalog)
                  = UsableTimeTotal(call.catalog) * call.result.value.avg_generation_time.den

RECURSIVE SumOver(_, _)
SumOver(f, S) ==
    IF S = {} THEN 0
    ELSE LET x == CHOOSE y \in S : TRUE IN f[x] + SumOver(f, S \ {x})

CountsTotal(counts) == SumOver(counts, DOMAIN counts)

\* C15: for a non-empty catalog calculate_statistics returns, and each of
\* its three breakdowns counts every record once (a record without the
\* value under "Unknown"), so the counts of each sum to total_generations.
C15_BreakdownsCoverCatalog ==
    call.op = "calculate_statistics" /\ Len(call.catalog) > 0 =>
        /\ ~call.result.raised
        /\ call.result.value.total_generations = Len(call.catalog)
        /\ CountsTotal(call.result.value.approaches) = Len(call.catalog)
        /\ CountsTotal(call.result.value.base_models) = Len(call.catalog)
        /\ CountsTotal(call.result.value.lora_models) = Len(call.catalog)

(***************************************************************************)
(* Comparisons: get_comparisons, s3_service.py lines 184-216, and          *)
(* display_comparisons, app.py lines 273-387.  What display_comparisons    *)
(* puts on the page is a sequence of items, in order: [kind |-> "info"],   *)
(* [kind |-> "error"], a pre-built comparison [kind |-> "comparison", ...] *)
(* or a prompt-hash group [kind |-> "group", ...].                         *)
(***************************************************************************)
\* paginator.paginate(Bucket, Prefix='metadata/comparisons/')
paginate_comparisons ==
    IF Len(compStore) = 0 THEN << [KeyCount |-> 0] >> ELSE Chunks(compStore)

\* line 203: key.endswith('.json') and 'comp_' in key
IsComparisonKey(key) == EndsWith(key, ".json") /\ IsSubstring("comp_", key)

\* one listed key, lines 201-210
LoadComparison(key) ==
    IF ~IsComparisonKey(key) THEN <<>>
    ELSE LET comparison == _load_metadata_from_s3(key)
         IN  IF Truthy(comparison) THEN <<comparison>> ELSE <<>>

RECURSIVE ComparisonsOfContents(_, _)
ComparisonsOfContents(contents, i) ==
    IF i > Len(contents) THEN <<>>
    ELSE LoadComparison(contents[i].Key) \o ComparisonsOfContents(contents, i + 1)

\* the loop over the pages, lines 196-210; fetching page failAt raises
RECURSIVE ScanComparisonPages(_, _, _, _)
ScanComparisonPages(pages, p, failAt, acc) ==
    IF p > Len(pages) THEN [raised |-> FALSE, comparisons |-> acc]
    ELSE IF p = failAt THEN [raised |-> TRUE, comparisons |-> acc]
    ELSE IF "Contents" \notin DOMAIN pages[p]
         THEN ScanComparisonPages(pages, p + 1, failAt, acc)
    ELSE ScanComparisonPages(pages, p + 1, failAt,
                             acc \o ComparisonsOfContents(pages[p].Contents, 1))

ComparisonListingFails(failAt) == failAt \in 1..Len(paginate_comparisons)

\* lines 184-216: the except returns [] for a failure of the listing
get_comparisons(failAt) ==
    LET r == ScanComparisonPages(paginate_comparisons, 1, failAt, <<>>)
    IN  [raised |-> FALSE, value |-> IF r.raised THEN <<>> ELSE r.comparisons]

\* len(x) raises TypeError for a number or None
LenRaises(x) == x.t \in {"num", "none"}

PyLen(x) == IF x.t = "dict" THEN Cardinality(DOMAIN x.v) ELSE Len(x.v)

Min(a, b) == IF a < b THEN a ELSE b

\* the members iterated by enumerate(): of a list its items, of a string its
\* characters; the keys of a dict are taken in the order of their names
RECURSIVE KeysInOrder(_)
KeysInOrder(S) ==
    IF S = {} THEN <<>>
    ELSE LET k == CHOOSE x \in S : \A y \in S : y = x \/ StrLess(x, y)
         IN  <<PStr(k)>> \o KeysInOrder(S \ {k})

MembersOf(x) ==
    CASE x.t = "list" -> x.v
      [] x.t = "str" -> [i \in 1..Len(x.v) |-> PStr(SubSeq(x.v, i, i))]
      [] x.t = "dict" -> KeysInOrder(DOMAIN x.v)

\* lines 306-334 raise for comp_gen (caught at line 336)
PictureRaises(comp_gen) ==
    \/ ~HasGet(comp_gen)
    \/ LET image_url == Get(comp_gen, "image_url", PStr(""))
       IN  \/ PyInRaises(image_url)
           \/ image_url.t # "str" /\ PyIn(S3Host, image_url)

MemberRaises(comp_gen) ==
    \/ PictureRaises(comp_gen)
    \/ LET model == Get(comp_gen, "model", EmptyDict)
       IN  \/ PyInRaises(model)
           \/ /\ model.t \in {"str", "list"}
              /\ PyIn("lora_model", model) \/ PyIn("base_model", model)
    \/ Get(comp_gen, "generation_id", PStr("N/A")).t \notin {"str", "list"}

\* lines 308-319: "image", "none" (st.error 'Image non trouvee') or "skipped"
\* (the URL names no key)
MemberPicture(comp_gen) ==
    LET image_url == Get(comp_gen, "image_url", PStr(""))
    IN  IF image_url.t = "str" /\ IsSubstring(S3Host, image_url.v)
        THEN get_image(PStr(AfterLast(image_url.v, S3Host)))
        ELSE "skipped"

\* lines 296-339 for one comparison with more than one member
PresentComparison(comparison) ==
    LET prompt == Get(comparison, "original_prompt", PStr(""))
        comparison_generations == Get(comparison, "generations", EmptyList)
        members == MembersOf(comparison_generations)
        columns == Min(Len(members), 4)
    IN  [kind |-> "comparison",
         title |-> IF prompt.t = "str" THEN PStr(truncate_text(prompt.v, 100))
                   ELSE IF Truthy(prompt) THEN prompt ELSE PStr("N/A"),
         size |-> PyLen(comparison_generations),
         members |-> SubSeq(members, 1, columns),
         errors |-> {i \in 1..columns : MemberRaises(members[i])},
         pictures |-> {i \in 1..columns :
                          /\ ~PictureRaises(members[i])
                          /\ MemberPicture(members[i]) = "image"}]

\* the body of the loop, lines 290-296, raises for comparison
ComparisonRaises(comparison) ==
    \/ ~HasGet(comparison)
    \/ LenRaises(Get(comparison, "generations", EmptyList))
    \/ /\ PyLen(Get(comparison, "generations", EmptyList)) > 1
       /\ TruncateRaises(Get(comparison, "original_prompt", PStr("")))

SkipsComparison(comparison) ==
    PyLen(Get(comparison, "generations", EmptyList)) <= 1

\* the loop of lines 289-339 from comparison i on: [raised, shown]
RECURSIVE PresentComparisons(_, _, _)
PresentComparisons(comparisons, i, shown) ==
    IF i > Len(comparisons) THEN [raised |-> FALSE, shown |-> shown]
    ELSE IF ComparisonRaises(comparisons[i]) THEN [raised |-> TRUE, shown |-> shown]
    ELSE IF SkipsComparison(comparisons[i])
         THEN PresentComparisons(comparisons, i + 1, shown)
    ELSE PresentComparisons(comparisons, i + 1,
                            shown \o <<PresentComparison(comparisons[i])>>)

\* lines 350-351: the grouping key of a record
prompt_hash_of(gen) ==
    Get(Get(gen, "prompt_info", EmptyDict), "hash", PStr("unknown"))

\* the keys of grouped, in the order in which lines 349-355 insert them
RECURSIVE GroupKeys(_, _)
GroupKeys(gens, seen) ==
    IF Len(gens) = 0 THEN seen
    ELSE LET k == prompt_hash_of(Head(gens))
         IN  GroupKeys(Tail(gens),
                       IF \E i \in 1..Len(seen) : seen[i] = k THEN seen
                       ELSE Append(seen, k))

\* grouped[k], lines 348-355
GroupOf(gens, k) == SelectSeq(gens, LAMBDA gen : prompt_hash_of(gen) = k)

\* lines 349-355 raise: .get of a prompt_info that is no dict, or a hash
\* that cannot be a dict key
GroupingRaises(gens) ==
    \E i \in 1..Len(gens) :
        \/ ~HasGet(Get(gens[i], "prompt_info", EmptyDict))
        \/ Unhashable(prompt_hash_of(gens[i]))

comparison_groups_with_singletons(gens) ==
    GroupKeys(gens, <<>>)

\* line 358: the keys of the groups with more than one record
comparison_groups(gens) ==
    SelectSeq(GroupKeys(gens, <<>>), LAMBDA k : Len(GroupOf(gens, k)) > 1)

\* line 366: first_prompt
first_prompt(group_generations) ==
    Get(Get(group_generations[1], "prompt_info", EmptyDict),
        "original", PStr("Prompt inconnu"))

\* lines 364-387 for one group
PresentGroup(prompt_hash, group_generations) ==
    LET columns == Min(Len(group_generations), 4)
    IN  [kind |-> "group",
         prompt_hash |-> prompt_hash,
         first_prompt |-> first_prompt(group_generations),
         title |-> IF first_prompt(group_generations).t = "str"
                   THEN PStr(truncate_text(first_prompt(group_generations).v, 80))
                   ELSE IF Truthy(first_prompt(group_generations))
                        THEN first_prompt(group_generations) ELSE PStr("N/A"),
         group_generations |-> group_generations,
         pictures |-> {i \in 1..columns :
                          /\ "image_key" \in DOMAIN group_generations[i].v
                          /\ get_image(group_generations[i].v["image_key"]) = "image"}]

\* the loop of lines 364-387 from group i on: [raised, shown]
RECURSIVE PresentGroups(_, _, _, _)
PresentGroups(gens, keys, i, shown) ==
    IF i > Len(keys) THEN [raised |-> FALSE, shown |-> shown]
    ELSE IF TruncateRaises(first_prompt(GroupOf(gens, keys[i])))
         THEN [raised |-> TRUE, shown |-> shown]
    ELSE PresentGroups(gens, keys, i + 1,
                       shown \o <<PresentGroup(keys[i], GroupOf(gens, keys[i]))>>)

\* the except branch, lines 341-387, after what the try has shown
Fallback(gens, shown) ==
    LET begun == shown \o << [kind |-> "error"], [kind |-> "info"] >>
    IN  IF GroupingRaises(gens) THEN [raised |-> TRUE, shown |-> begun]
        ELSE IF Len(comparison_groups(gens)) = 0
             THEN [raised |-> FALSE, shown |-> Append(begun, [kind |-> "info"])]
        ELSE PresentGroups(gens, comparison_groups(gens), 1, begun)

\* lines 273-387: [raised, fallback, shown]; raised when an exception
\* leaves display_comparisons, fallback when the except branch ran.  A
\* listing that fails shows the st.error of get_comparisons (line 215 of the
\* service) and then the notice of line 285.
display_comparisons(gens, failAt) ==
    LET comparisons == get_comparisons(failAt)
    IN  IF comparisons.raised
        THEN [fallback |-> TRUE] @@ Fallback(gens, <<>>)
        ELSE IF Len(comparisons.value) = 0
        THEN [raised |-> FALSE, fallback |-> FALSE,
              shown |-> IF ComparisonListingFails(failAt)
                        THEN << [kind |-> "error"], [kind |-> "info"] >>
                        ELSE << [kind |-> "info"] >>]
        ELSE LET primary == PresentComparisons(comparisons.value, 1, <<>>)
             IN  IF primary.raised
                 THEN [fallback |-> TRUE] @@ Fallback(gens, primary.shown)
                 ELSE [fallback |-> FALSE] @@ primary

(***************************************************************************)
(* Comparison documents and the objects under metadata/comparisons/.       *)
(***************************************************************************)
KeyCompTxt == "metadata/comparisons/comp_0.txt"
KeyComp1 == "metadata/comparisons/comp_1.json"
KeyComp2 == "metadata/comparisons/comp_2.json"
KeyRecomp == "metadata/comparisons/recomp_3.json"
KeySummary == "metadata/comparisons/summary.json"

MemberG1 ==
    PDict([generation_id |-> PStr("g1"), approach |-> PStr("single_lora"),
           image_url |-> PStr("https://plans.s3.amazonaws.com/" \o ImgPng),
           model |-> PDict([lora_model |-> PStr("floorplan")])])

MemberG2 ==
    PDict([generation_id |-> PStr("g2"), approach |-> PStr("combined"),
           model |-> EmptyDict])

CompPair ==
    PDict([original_prompt |-> PStr("two bedrooms"),
           generations |-> PList(<<MemberG1, MemberG2>>)])

CompAlt ==
    PDict([original_prompt |-> PStr("a kitchen"),
           generations |-> PList(<<MemberG2, MemberG1, PStr("g3")>>)])

CompSingle ==
    PDict([original_prompt |-> PStr("garage"), generations |-> PList(<<MemberG1>>)])

CompNoMembers == PDict([original_prompt |-> PStr("attic")])

\* a JSON array instead of an object
CompList == PList(<<MemberG1, MemberG2>>)

\* the listing, in key order, of the objects under metadata/comparisons/
CompStoreOf(c0, c1, c2, c3, c4) ==
    LET obj(k, b) == IF b.state = "absent" THEN <<>>
                     ELSE << [Key |-> k, state |-> b.state, doc |-> b.doc] >>
    IN  obj(KeyCompTxt, c0) \o obj(KeyComp1, c1) \o obj(KeyComp2, c2)
            \o obj(KeyRecomp, c3) \o obj(KeySummary, c4)

Stored(doc) == [state |-> "ok", doc |-> doc]

\* prompt_info is the prompt itself, not a mapping
DocOddPrompt ==
    PDict([generation_id |-> PStr("g7"), approach |-> PStr("combined"),
           model_config |-> EmptyDict, prompt_info |-> PStr("a kitchen")])

LongPrompt ==
    "a floor plan with two bedrooms one kitchen one bathroom a garage "
        \o "and a large living room facing south"

DocH2 ==
    PDict([generation_id |-> PStr("g8"), approach |-> PStr("combined"),
           model_config |-> EmptyDict,
           prompt_info |-> PDict([original |-> PStr(LongPrompt), hash |-> PStr("h2")])])

\* no prompt text, hash "unknown" written out
DocUnknown ==
    PDict([generation_id |-> PStr("g9"), approach |-> PStr("Baseline"),
           model_config |-> EmptyDict,
           prompt_info |-> PDict([hash |-> PStr("unknown")])])

(***************************************************************************)
(* SpecCompare: get_comparisons and display_comparisons over the stores of *)
(* comparison objects, with every page of the listing failing.             *)
(***************************************************************************)
NoCompareDashboard ==
    /\ service = "none"
    /\ now = 0
    /\ genCache = NoCache
    /\ filtCache = NoCache
    /\ pc = "idle"
    /\ generations = get_all_generations(0)
    /\ filters_data = NoFilters
    /\ selection = NoSelection
    /\ filtered = <<>>
    /\ ui = "none"
    /\ scanLog = NoScans
    /\ call = NoCall

InitCompare ==
    /\ \E b2 \in {Stored(DocB), Stored(DocOddPrompt), Absent},
          b3 \in {Stored(DocC), Absent} :
          store = StoreOf(Stored(DocA), b2, b3, Absent)
    /\ \E c0 \in {Absent, Stored(CompPair)},
          c1 \in {Absent, Stored(CompPair), Stored(CompSingle), Stored(CompList),
                  [state |-> "gone", doc |-> PNone]},
          c2 \in {Absent, Stored(CompList), Stored(CompNoMembers), Stored(CompAlt)},
          c3 \in {Absent, Stored(CompAlt)},
          c4 \in {Absent, Stored(CompPair)} :
          compStore = CompStoreOf(c0, c1, c2, c3, c4)
    /\ images \in {{}, {ImgPng}}
    /\ s3fault = "none"
    /\ NoCompareDashboard

CallGetComparisons ==
    /\ call.op = "none"
    /\ \E failAt \in 0..Len(paginate_comparisons) :
          call' = [op |-> "get_comparisons", failAt |-> failAt,
                   failed |-> ComparisonListingFails(failAt),
                   catalog |-> generations, args |-> <<>>,
                   result |-> get_comparisons(failAt)]
    /\ UNCHANGED <<store, images, compStore, s3fault, dashboardVars>>

\* line 102: display_comparisons on the generations of the request
CallDisplayComparisons ==
    /\ call.op = "none"
    /\ \E failAt \in 0..Len(paginate_comparisons) :
          call' = [op |-> "display_comparisons", failAt |-> failAt,
                   failed |-> ComparisonListingFails(failAt),
                   catalog |-> generations, args |-> <<>>,
                   result |-> display_comparisons(generations, failAt)]
    /\ UNCHANGED <<store, images, compStore, s3fault, dashboardVars>>

NextCompare == CallGetComparisons \/ CallDisplayComparisons

SpecCompare == InitCompare /\ [][NextCompare]_vars

(***************************************************************************)
(* SpecGroup: display_comparisons where the pre-built comparisons cannot   *)
(* be shown (a comparison object that is a JSON array), over the catalogs  *)
(* of up to three records with equal, different and no prompt hashes.      *)
(***************************************************************************)
GroupDocs == {DocA, DocB, DocC, DocH2, DocUnknown, DocOddPrompt}

InitGroup ==
    /\ \E b1, b2, b3 \in {Stored(d) : d \in GroupDocs} \cup {Absent} :
          store = StoreOf(b1, b2, b3, Absent)
    /\ \E c1 \in {Stored(CompList), Stored(CompPair)} :
          compStore = CompStoreOf(Absent, c1, Stored(CompList), Absent, Absent)
    /\ images = {ImgPng}
    /\ s3fault = "none"
    /\ NoCompareDashboard

NextGroup == CallDisplayComparisons

SpecGroup == InitGroup /\ [][NextGroup]_vars

(***************************************************************************)
(* Claims about comparisons (SpecCompare, SpecGroup).                      *)
(***************************************************************************)
\* the key is metadata/comparisons/comp_<something>.json
FollowsConvention(key) ==
    /\ Len(key) > Len("metadata/comparisons/comp_") + Len(".json")
    /\ SubSeq(key, 1, Len("metadata/comparisons/comp_")) = "metadata/comparisons/comp_"
    /\ EndsWith(key, ".json")

\* the documents, in listing order, of the objects named by the convention
\* that load as a non-empty value
RECURSIVE ConventionalComparisons(_)
ConventionalComparisons(objs) ==
    IF Len(objs) = 0 THEN <<>>
    ELSE (IF /\ FollowsConvention(objs[1].Key)
             /\ objs[1].state = "ok"
             /\ Truthy(objs[1].doc)
          THEN <<objs[1].doc>> ELSE <<>>) \o ConventionalComparisons(Tail(objs))

\* C16: get_comparisons loads only the objects under metadata/comparisons/
\* named comp_*.json, and display_comparisons presents no pre-built
\* comparison with fewer than 2 members.
C16_OnlyConventionalSetsOfTwo ==
    /\ call.op = "get_comparisons" /\ ~call.failed =>
          call.result.value = ConventionalComparisons(compStore)
    /\ call.op = "display_comparisons" =>
          \A i \in 1..Len(call.result.shown) :
              call.result.shown[i].kind = "comparison" => call.result.shown[i].size >= 2

\* the grouping key of a record as the claim words it
HashKey(g) ==
    LET pi == Get(g, "prompt_info", EmptyDict)
    IN  IF pi.t = "dict" /\ "hash" \in DOMAIN pi.v THEN pi.v["hash"] ELSE PStr("unknown")

GroupsShown(shown) == SelectSeq(shown, LAMBDA item : item.kind = "group")

\* C17: when the fallback of display_comparisons runs to its end, the groups
\* it presents are the classes of the catalog's records by prompt_info.hash
\* ("unknown" for a record without hash) that have at least 2 members, each
\* once, with its members in catalog order and the prompt text of its first
\* member as first_prompt (shown in full when it has at most 80 characters).
C17_FallbackGroupsByHash ==
    call.op = "display_comparisons" /\ call.result.fallback /\ ~call.result.raised =>
        LET groups == GroupsShown(call.result.shown)
            class(k) == SelectSeq(call.catalog, LAMBDA g : HashKey(g) = k)
        IN  /\ {groups[i].prompt_hash : i \in 1..Len(groups)} =
                   {HashKey(call.catalog[j]) : j \in
                       {n \in 1..Len(call.catalog) :
                           Len(class(HashKey(call.catalog[n]))) >= 2}}
            /\ \A i \in 1..Len(groups), j \in 1..Len(groups) :
                   groups[i].prompt_hash = groups[j].prompt_hash => i = j
            /\ \A i \in 1..Len(groups) :
                   /\ groups[i].group_generations = class(groups[i].prompt_hash)
                   /\ Len(groups[i].group_generations) >= 2
                   /\ PromptText(groups[i].group_generations[1]) # "" =>
                         /\ groups[i].first_prompt =
                                PStr(PromptText(groups[i].group_generations[1]))
                         /\ Len(PromptText(groups[i].group_generations[1])) <= 80 =>
                                groups[i].title = groups[i].first_prompt

\* three records, the first and the third with hash h1 and the second alone
\* with h2: one group, for h1, of the two records in catalog order
C17_Witness ==
    /\ call.op = "display_comparisons"
    /\ call.result.fallback /\ ~call.result.raised
    /\ Len(call.catalog) = 3
    /\ HashKey(call.catalog[1]) = PStr("h1")
    /\ HashKey(call.catalog[2]) = PStr("h2")
    /\ HashKey(call.catalog[3]) = PStr("h1")
    /\ Len(GroupsShown(call.result.shown)) = 1
    /\ GroupsShown(call.result.shown)[1].prompt_hash = PStr("h1")
    /\ GroupsShown(call.result.shown)[1].group_generations =
           <<call.catalog[1], call.catalog[3]>>

\* C18: when the listing of metadata/comparisons/ fails, display_comparisons
\* takes its fallback and presents the catalog's prompt-hash groups.
C18_ListingFailureFallsBack ==
    call.op = "display_comparisons" /\ call.failed /\ WellFormed(call.catalog) =>
        /\ call.result.fallback
        /\ (\E i, j \in 1..Len(call.catalog) :
               i # j /\ HashKey(call.catalog[i]) = HashKey(call.catalog[j]))
           => Len(GroupsShown(call.result.shown)) > 0

(***************************************************************************)
(* S3GalleryService.__init__, s3_service.py lines 12-41, behind            *)
(* st.cache_resource (app.py lines 25-27).  The environment is a dict of   *)
(* the variables that are set; head_bucket is "ok" or the exception it     *)
(* raises.  The result is [raised, error, aws_region].                     *)
(***************************************************************************)
\* os.getenv(name): None for a variable that is not set
getenv(env, name) == Get(env, name, PNone)

init_without_bucket_check(env, head_bucket) ==
    LET aws_access_key == getenv(env, "AWS_ACCESS_KEY_ID")
        aws_secret_key == getenv(env, "AWS_SECRET_ACCESS_KEY")
        aws_region == Get(env, "AWS_REGION", PStr("us-east-1"))
    IN  IF ~(Truthy(aws_access_key) /\ Truthy(aws_secret_key))
        THEN [raised |-> TRUE, error |-> "ValueError", aws_region |-> aws_region]
        ELSE IF head_bucket # "ok"
        THEN [raised |-> TRUE, error |-> head_bucket, aws_region |-> aws_region]
        ELSE [raised |-> FALSE, error |-> "none", aws_region |-> aws_region]

__init__(env, head_bucket) ==
    LET aws_access_key == getenv(env, "AWS_ACCESS_KEY_ID")
        aws_secret_key == getenv(env, "AWS_SECRET_ACCESS_KEY")
        aws_region == Get(env, "AWS_REGION", PStr("us-east-1"))
        bucket_name == getenv(env, "S3_BUCKET_NAME")
    IN  IF ~(Truthy(aws_access_key) /\ Truthy(aws_secret_key) /\ Truthy(bucket_name))
        THEN [raised |-> TRUE, error |-> "ValueError", aws_region |-> aws_region]
        ELSE IF head_bucket # "ok"
        THEN [raised |-> TRUE, error |-> head_bucket, aws_region |-> aws_region]
        ELSE [raised |-> FALSE, error |-> "none", aws_region |-> aws_region]

\* the outcomes of head_bucket, lines 31-41
HeadBucketOutcomes == {"ok", "ClientError", "NoCredentialsError", "Exception"}

\* a variable of the environment: not set, set to nothing, or set
Setting(name, value) ==
    {<<>>, name :> PStr(""), name :> PStr(value)}

Environments ==
    {PDict(k @@ x @@ r @@ b) :
        k \in Setting("AWS_ACCESS_KEY_ID", "AKIA"),
        x \in Setting("AWS_SECRET_ACCESS_KEY", "secret"),
        r \in {<<>>, "AWS_REGION" :> PStr("eu-west-1")},
        b \in Setting("S3_BUCKET_NAME", "plans")}

(***************************************************************************)
(* SpecInit: the first use of the service in a process, and a read of the  *)
(* catalog after it.                                                       *)
(***************************************************************************)
InitEnv ==
    /\ store \in DashStores
    /\ images = {ImgPng}
    /\ s3fault = "none"
    /\ compStore = <<>>
    /\ DashboardIdle
    /\ call = NoCall

\* init_s3_service(), app.py lines 25-27: the service is kept only when
\* __init__ returns
CallInitS3Service ==
    /\ call.op = "none"
    /\ service = "none"
    /\ \E env \in Environments, head_bucket \in HeadBucketOutcomes :
          /\ call' = [op |-> "init_s3_service", failAt |-> 0, failed |-> FALSE,
                      catalog |-> <<>>, args |-> env,
                      result |-> __init__(env, head_bucket)]
          /\ service' = IF __init__(env, head_bucket).raised THEN "none" ELSE "ready"
    /\ UNCHANGED <<store, images, compStore, s3fault, now, genCache, filtCache, pc,
                   generations, filters_data, selection, filtered, ui, scanLog>>

\* load_all_generations(), app.py lines 31-33, in the same environment: the
\* service that is kept, or a new attempt to build one
CallLoadAllGenerations ==
    /\ call.op = "init_s3_service"
    /\ \E head_bucket \in HeadBucketOutcomes, failAt \in 0..Len(paginate) :
          LET built == IF service = "ready"
                       THEN [raised |-> FALSE, error |-> "none",
                             aws_region |-> call.result.aws_region]
                       ELSE __init__(call.args, head_bucket)
          IN  /\ call' = [op |-> "load_all_generations", failAt |-> failAt,
                          failed |-> ~built.raised /\ ListingFails(failAt),
                          catalog |-> <<>>, args |-> call.args,
                          result |-> IF built.raised
                                     THEN [raised |-> TRUE, value |-> <<>>]
                                     ELSE [raised |-> FALSE,
                                           value |-> get_all_generations(failAt)]]
              /\ service' = IF built.raised THEN "none" ELSE "ready"
    /\ UNCHANGED <<store, images, compStore, s3fault, now, genCache, filtCache, pc,
                   generations, filters_data, selection, filtered, ui, scanLog>>

NextInit == CallInitS3Service \/ CallLoadAllGenerations

SpecInit == InitEnv /\ [][NextInit]_vars

(***************************************************************************)
(* Claims about the initialisation (SpecInit).                             *)
(***************************************************************************)
Unset(env, name) == name \notin DOMAIN env.v

Missing(env, name) == name \notin DOMAIN env.v \/ env.v[name] = PStr("")

\* C19 as worded: building the service raises whenever the access key id,
\* the secret access key, the region or the bucket name is not set.
C19_AnyUnsetValueIsFatal ==
    /\ call.op = "init_s3_service"
    /\ \/ Unset(call.args, "AWS_ACCESS_KEY_ID")
       \/ Unset(call.args, "AWS_SECRET_ACCESS_KEY")
       \/ Unset(call.args, "AWS_REGION")
       \/ Unset(call.args, "S3_BUCKET_NAME")
    => call.result.raised

\* C19 amended: building the service raises, and no service is kept, whenever
\* the access key id, the secret access key or the bucket name is not set or
\* empty, and a read of the catalog in that environment raises as well; a
\* region that is not set is replaced by us-east-1 and is not fatal.
C19_MissingCredentialOrBucketIsFatal ==
    /\ (/\ call.op \in {"init_s3_service", "load_all_generations"}
        /\ \/ Missing(call.args, "AWS_ACCESS_KEY_ID")
           \/ Missing(call.args, "AWS_SECRET_ACCESS_KEY")
           \/ Missing(call.args, "S3_BUCKET_NAME"))
       => call.result.raised /\ service = "none"
    /\ (/\ call.op = "init_s3_service"
        /\ Unset(call.args, "AWS_REGION")
        /\ ~call.result.raised)
       => call.result.aws_region = PStr("us-east-1") /\ service = "ready"
    /\ call.op = "load_all_generations" /\ ~call.result.raised => service = "ready"

\* the bucket name is not set: the service is not built, and the read of the
\* catalog that follows raises
C19_Witness ==
    /\ call.op = "load_all_generations"
    /\ Unset(call.args, "S3_BUCKET_NAME")
    /\ ~Missing(call.args, "AWS_ACCESS_KEY_ID")
    /\ ~Missing(call.args, "AWS_SECRET_ACCESS_KEY")
    /\ call.result.raised
    /\ service = "none"

(***************************************************************************)
(* Claims about the memoized reads (Spec).                                 *)
(***************************************************************************)
\* the entry was fetched less than 300 seconds ago
WithinWindow(entry) == entry.valid /\ now - entry.at < 300

\* C20: each of the two reads of a request (load_all_generations, then
\* get_available_filters) is served its memoized snapshot, without a scan and
\* leaving the entry as it is, when the snapshot was fetched less than 300
\* seconds ago, and otherwise scans the store and memoizes the result with
\* the time of the scan; an entry changes in no other step.
C20_ReadsMemoizedForWindow ==
    [][/\ pc = "idle" /\ pc' = "filters" =>
             IF WithinWindow(genCache)
             THEN /\ generations' = genCache.val
                  /\ genCache' = genCache
                  /\ scanLog'.generations = "cached"
             ELSE /\ generations' \in {get_all_generations(f) : f \in 0..Len(paginate)}
                  /\ genCache'.valid /\ genCache'.at = now
                  /\ genCache'.val = generations'
                  /\ scanLog'.generations \in {"ok", "failed"}
       /\ pc = "filters" /\ pc' # "filters" =>
             IF WithinWindow(filtCache)
             THEN /\ filters_data' = filtCache.val
                  /\ filtCache' = filtCache
                  /\ scanLog'.filters = "cached"
             ELSE /\ filters_data' \in {get_available_filters(f) : f \in 0..Len(paginate)}
                  /\ filtCache'.valid /\ filtCache'.at = now
                  /\ filtCache'.val = filters_data'
                  /\ scanLog'.filters \in {"ok", "failed"}
       /\ genCache' # genCache => pc = "idle" /\ pc' = "filters"
       /\ filtCache' # filtCache => pc = "filters" /\ pc' # "filters"]_vars

\* a request whose catalog was scanned anew, 300 seconds or more after the
\* scan of an earlier request, whose filter options are still memoized
C20_Witness ==
    /\ pc = "filters"
    /\ scanLog.generations = "ok"
    /\ genCache.valid /\ genCache.at >= 300 /\ genCache.at = now
    /\ filtCache.valid /\ filtCache.at = 0

(***************************************************************************)
(* Claims about a failed listing and the memoized reads (Spec).            *)
(***************************************************************************)
\* C21: a failed listing affects only the request it occurs in: a later
\* request that is served a memoized read is never served the empty result
\* of a failed scan in place of what the reachable store holds, for the
\* catalog and for the filter options alike.
C21_ListingFailureNotMemoized ==
    /\ scanLog.generations = "cached" /\ genCache.failed
           => generations = get_all_generations(0)
    /\ scanLog.filters = "cached" /\ filtCache.failed
           => filters_data = get_available_filters(0)

(***************************************************************************)
(* Claims about filtering whatever the scan retained (SpecFilter).         *)
(***************************************************************************)
\* C22: apply_filters raises for no catalog the scan produced and no
\* selection: every record that passed _validate_generation_metadata can be
\* filtered, whatever the shape of its fields.
C22_FilteringNeverRaises ==
    call.op = "apply_filters" => ~call.result.raised

(***************************************************************************)
(* Claims about the one path of a comparisons request (SpecCompare).       *)
(***************************************************************************)
\* the kinds of the items a call of display_comparisons has shown
KindsShown == {call.result.shown[i].kind : i \in 1..Len(call.result.shown)}

\* C23: the groups a comparisons request presents come from one path: the
\* stored comparison records or the prompt-hash fallback, never stored
\* comparison sets followed by fallback groups in the same output.
C23_OnePathPerRequest ==
    call.op = "display_comparisons" =>
        ~({"comparison", "group"} \subseteq KindsShown)

====
